---- MODULE Spec2Model ----
(***************************************************************************)
(* A model of watershed.py: create_watershed and combine_rasters.          *)
(* The geoprocessing engine (arcpy) is modelled by its effect on the set   *)
(* of datasets that exist and on arcpy.env.workspace; every engine call    *)
(* may raise.  Paths are sequences of components; dataset names are        *)
(* strings built by concatenation exactly as the script builds them.       *)
(***************************************************************************)
EXTENDS Integers, Sequences, FiniteSets, TLC

\* ------------------------------------------------------------------ bounds
MaxPoints == 2      \* longest list of coordinates
MaxDirs == 2        \* most directories below the grid folder

\* ------------------------------------------------------------------ inputs
Stations == {"BL28", "BL29"}
MosaicNames == {"combine", "dem"}
\* one value below and one above the stages the docstring names
Stages == (0 - 1) .. 6

grid == <<"grid">>
play_folder == <<"play">>
out_geo == "merge.gdb"
type_of_raster == "GRID"
overwriteOutput == TRUE

\* what a folder of the grid tree holds: a raster of each type, and the folders
\* inside tile folders one more
FolderRasters(dir) ==
    <<[name |-> "ned", type |-> "GRID"], [name |-> "ortho", type |-> "IMG"]>>
    \o (IF Len(dir) > Len(grid) + 1 THEN <<[name |-> "ned_1", type |-> "GRID"]>> ELSE <<>>)

\* the exceptions an engine call may raise
Excs == {[type |-> "ExecuteError", args |-> <<"msg">>],
         [type |-> "Exception", args |-> <<"msg">>],
         [type |-> "Exception", args |-> <<>>]}

VARIABLES
    stage, mosaic_name, coordinates,   \* arguments
    tree,             \* the folders below grid, as os.walk finds them
    pc,               \* position in create_watershed / combine_rasters
    workspace,        \* arcpy.env.workspace
    ext,              \* Spatial Analyst extension checked out
    exists,           \* the paths (geodatabase, datasets) that exist
    rows,             \* rows of the points feature class
    old_wkspace, rasters_to_add, widx,   \* locals of combine_rasters
    mosaicArg,        \* the list handed to MosaicToNewRaster_management
    ci,               \* index of coord in the for loop
    cursor,           \* the insert cursor is open
    exc,              \* exception in flight
    outcome,          \* "none", "running", "returned", "propagated"
    logged,           \* the except handler printed a message
    failed, failedAt, \* this run raised, and in which step (-1: before step 0)
    prevFailed,       \* step in which the preceding stage-0 run failed, else -1
    trace,            \* engine calls and step starts of this run, in order
    reads,            \* [step, path] read in this run
    missing,          \* paths read in this run that did not exist
    shedDone          \* indices of the coordinates whose shed polygon was written

args == <<mosaic_name, coordinates>>
combineLocals == <<tree, old_wkspace, rasters_to_add, widx, mosaicArg>>
ctl == <<exc, failed, failedAt>>
result == <<outcome, logged>>
vars == <<stage, args, pc, workspace, ext, exists, rows, combineLocals, ci, cursor,
          ctl, result, prevFailed, trace, reads, missing, shedDone>>

\* ------------------------------------------------------------------ paths
\* os.path.join of a path and one relative component
Join(path, name) == Append(path, name)

\* path + suffix: string concatenation extends the last component
Suffix(path, s) == [path EXCEPT ![Len(path)] = @ \o s]

IsPrefix(p, q) == Len(p) <= Len(q) /\ SubSeq(q, 1, Len(p)) = p

Gdb == Join(play_folder, out_geo)

\* line 47
combined == Join(Join(play_folder, out_geo), mosaic_name)

\* a dataset name given without folder resolves in the workspace
Resolve(name) == Join(workspace, name)

\* ------------------------------------------------------------------ grid tree
\* tree[i] is the parent of folder i; folder 0 is grid itself; combine_rasters
\* finds the tree when it walks grid
Trees == UNION {{t \in [1..n -> 0..(n - 1)] : \A i \in 1..n : t[i] < i} : n \in 0..MaxDirs}

RECURSIVE DirPath(_)
DirPath(d) == IF d = 0 THEN grid ELSE Join(DirPath(tree[d]), "d" \o ToString(d))

\* dirnames of one os.walk tuple
Children(d) == SelectSeq([i \in 1..Len(tree) |-> i], LAMBDA i : tree[i] = d)

RECURSIVE Walk(_)
RECURSIVE WalkAll(_)
\* the dirpaths os.walk yields, top-down
Walk(d) == <<d>> \o WalkAll(Children(d))
WalkAll(ds) == IF ds = <<>> THEN <<>> ELSE Walk(Head(ds)) \o WalkAll(Tail(ds))

RECURSIVE Flatten(_)
Flatten(ss) == IF ss = <<>> THEN <<>> ELSE Head(ss) \o Flatten(Tail(ss))

\* a walk that would also look into each dirpath itself, grid included
CurDirsWithTop == Walk(0)
\* the curdir values of lines 143-145, in order
CurDirs == Flatten([j \in 1..Len(Walk(0)) |-> Children(Walk(0)[j])])

\* arcpy.ListRasters("*", type_of_raster) in the current workspace
ListRasters(t) ==
    LET sel == SelectSeq(FolderRasters(workspace), LAMBDA r : r.type = t)
    IN  [j \in 1..Len(sel) |-> sel[j].name]

\* ------------------------------------------------------------------ steps
\* the test written with <= in place of <
RunsStepLate(k) == stage <= k + 1
\* the test guarding step k (lines 51, 59, 70, 80, 90)
RunsStep(k) == stage < k + 1

StepOf(p) ==
    CASE p \in {"l48", "l50", "l51"} -> 0 - 1
      [] p \in {"c141", "c143", "c148", "c152", "c154", "c156", "c160", "c161"} -> 0
      [] p \in {"l59", "l62", "l64"} -> 1
      [] p \in {"l70", "l73", "l75"} -> 2
      [] p \in {"l80", "l83", "l85"} -> 3
      [] p \in {"l90", "l93"} -> 4
      [] OTHER -> 5

\* an entry of the run's history: the call op of step k returned (ok) or raised
Ev(op, k, ok) == [op |-> op, k |-> k, ok |-> ok]

\* an engine call that reads the paths ps
Read(ps) ==
    /\ reads' = reads \cup {[step |-> StepOf(pc), path |-> p] : p \in ps}
    /\ missing' = missing \cup (ps \ exists)

Raise(e) ==
    /\ exc' = e
    /\ failed' = TRUE
    /\ failedAt' = StepOf(pc)
    /\ pc' = "except"
Goto(p) == pc' = p /\ UNCHANGED ctl

\* the call op returns and control goes on at p; the call op raises
Done(op, p) == Goto(p) /\ trace' = Append(trace, Ev(op, StepOf(pc), TRUE))
Raises(op) ==
    /\ \E e \in Excs : Raise(e)
    /\ trace' = Append(trace, Ev(op, StepOf(pc), FALSE))

NoExc == [type |-> "none", args |-> <<>>]

Init ==
    /\ stage = 0
    /\ mosaic_name \in MosaicNames
    /\ coordinates \in UNION {[1..n -> Stations] : n \in 0..MaxPoints}
    /\ tree = <<>>
    /\ pc = "idle"
    /\ workspace = <<"cwd">>
    /\ ext = FALSE
    /\ exists = {}
    /\ rows = <<>>
    /\ old_wkspace = <<>> /\ rasters_to_add = <<>> /\ widx = 0 /\ mosaicArg = <<>>
    /\ ci = 0
    /\ cursor = FALSE
    /\ exc = NoExc
    /\ outcome = "none" /\ logged = FALSE
    /\ failed = FALSE /\ failedAt = 0 - 1
    /\ prevFailed = 0 - 1
    /\ trace = <<>> /\ reads = {} /\ missing = {}
    /\ shedDone = {}


\* ------------------------------------------------------------------ create_watershed
\* a call of create_watershed(grid, coordinates, play_folder, stage = s)
Call(s) ==
    /\ pc = "idle"
    /\ stage' = s
    /\ prevFailed' = IF outcome # "none" /\ failed /\ stage = 0 THEN failedAt ELSE 0 - 1
    /\ pc' = "l48"
    /\ exc' = NoExc /\ failed' = FALSE /\ failedAt' = 0 - 1
    /\ outcome' = "running" /\ logged' = FALSE
    /\ trace' = <<>> /\ reads' = {} /\ missing' = {} /\ shedDone' = {}
    /\ ci' = 0 /\ cursor' = FALSE
    /\ UNCHANGED <<args, workspace, ext, exists, rows, combineLocals>>

\* line 48
SetWorkspace ==
    /\ pc = "l48"
    /\ workspace' = Join(play_folder, out_geo)
    /\ Goto("l50")
    /\ UNCHANGED <<stage, args, ext, exists, rows, combineLocals, ci, cursor, result,
                   prevFailed, trace, reads, missing, shedDone>>

\* line 50
CheckOutExtension ==
    /\ pc = "l50"
    /\ \/ /\ ext' = TRUE
          /\ Done("CheckOutExtension", "l51")
       \/ /\ Raises("CheckOutExtension")
          /\ UNCHANGED ext
    /\ UNCHANGED <<stage, args, workspace, exists, rows, combineLocals, ci, cursor, result,
                   prevFailed, reads, missing, shedDone>>

\* where control goes from the test of step k
StepEntry(k) ==
    CASE k = 0 -> "c141" [] k = 1 -> "l62" [] k = 2 -> "l73" [] k = 3 -> "l83" [] OTHER -> "l93"
StepTest(k) ==
    CASE k = 0 -> "l51" [] k = 1 -> "l59" [] k = 2 -> "l70" [] k = 3 -> "l80"
      [] k = 4 -> "l90" [] OTHER -> "l99"

\* lines 51, 59, 70, 80, 90: if stage < k + 1 ... else ...
Gate(k) ==
    /\ pc = StepTest(k)
    /\ IF RunsStep(k)
          THEN Goto(StepEntry(k)) /\ trace' = Append(trace, Ev("start", k, TRUE))
          ELSE UNCHANGED trace /\ Goto(StepTest(k + 1))
    /\ UNCHANGED <<stage, args, workspace, ext, exists, rows, combineLocals, ci, cursor,
                   result, prevFailed, reads, missing, shedDone>>

\* an engine call of create_watershed that reads rd, writes wr and goes on at nxt;
\* sa: it is a Spatial Analyst tool
EngineCall(at, op, sa, rd, wr, nxt) ==
    /\ pc = at
    /\ Read(rd)
    /\ \/ /\ rd \subseteq exists
          /\ sa => ext
          /\ wr # {} => Gdb \in exists
          /\ exists' = exists \cup wr
          /\ Done(op, nxt)
       \/ /\ Raises(op)
          /\ UNCHANGED exists

\* what the steps 1-4 leave alone
Frame == UNCHANGED <<stage, args, workspace, ext, rows, combineLocals, ci, cursor, result,
                     prevFailed, shedDone>>

\* a Fill whose result would not be saved before the next test
FillSkipSave == "l70"
\* line 62 is followed by the save of line 64
AfterFill == "l64"
\* line 93: the expression names "combine_fa" literally, resolved in the workspace
StreamInput == Resolve("combine_fa")

\* line 62 names the raster relative to the workspace; lines 64-93 use full paths

Fill == EngineCall("l62", "Fill", TRUE, {Resolve(mosaic_name)}, {}, AfterFill) /\ Frame
SaveFill == EngineCall("l64", "save", FALSE, {}, {Suffix(combined, "_fill")}, "l70") /\ Frame
FlowDirection ==
    EngineCall("l73", "FlowDirection", TRUE, {Suffix(combined, "_fill")}, {}, "l75") /\ Frame
SaveFd == EngineCall("l75", "save", FALSE, {}, {Suffix(combined, "_fd")}, "l80") /\ Frame
FlowAccumulation ==
    EngineCall("l83", "FlowAccumulation", TRUE, {Suffix(combined, "_fd")}, {}, "l85") /\ Frame
SaveFa == EngineCall("l85", "save", FALSE, {}, {Suffix(combined, "_fa")}, "l90") /\ Frame
RasterCalculator ==
    EngineCall("l93", "RasterCalculator", TRUE, {StreamInput},
               {Suffix(combined, "_stream")}, "l99") /\ Frame


\* ------------------------------------------------------------------ combine_rasters
\* lines 141-142
CombineEnter ==
    /\ pc = "c141"
    /\ tree' \in Trees
    /\ old_wkspace' = workspace
    /\ rasters_to_add' = <<>>
    /\ widx' = 1
    /\ Goto("c143")
    /\ UNCHANGED <<stage, args, workspace, ext, exists, rows, mosaicArg, ci, cursor, result,
                   prevFailed, trace, reads, missing, shedDone>>

\* lines 143-147: the next curdir becomes the workspace, or the loops end
CombineNextDir ==
    /\ pc = "c143"
    /\ IF widx <= Len(CurDirs)
          THEN workspace' = DirPath(CurDirs[widx]) /\ Goto("c148")
          ELSE UNCHANGED workspace /\ Goto("c152")
    /\ UNCHANGED <<stage, args, ext, exists, rows, combineLocals, ci, cursor, result,
                   prevFailed, trace, reads, missing, shedDone>>

\* lines 148-150: the rasters of the workspace, joined to curdir
CombineList ==
    /\ pc = "c148"
    /\ \/ /\ LET found == ListRasters(type_of_raster)
                 curdir == DirPath(CurDirs[widx])
             IN  rasters_to_add' =
                     rasters_to_add \o [j \in 1..Len(found) |-> Join(curdir, found[j])]
          /\ widx' = widx + 1
          /\ Done("ListRasters", "c143")
       \/ /\ Raises("ListRasters")
          /\ UNCHANGED <<rasters_to_add, widx>>
    /\ UNCHANGED <<stage, args, workspace, ext, exists, rows, tree, old_wkspace, mosaicArg,
                   ci, cursor, result, prevFailed, reads, missing, shedDone>>

\* what deleting the geodatabase leaves
Deleted(g) == {p \in exists : ~IsPrefix(g, p)}

\* lines 152-153
CombineDelete ==
    /\ pc = "c152"
    /\ IF Gdb \in exists
          THEN \/ /\ exists' = Deleted(Gdb)
                  /\ rows' = <<>>
                  /\ Done("Delete", "c154")
               \/ /\ Raises("Delete")
                  /\ UNCHANGED <<exists, rows>>
          ELSE /\ UNCHANGED <<trace, exists, rows>>
               /\ Goto("c154")
    /\ UNCHANGED <<stage, args, workspace, ext, combineLocals, ci, cursor, result,
                   prevFailed, reads, missing, shedDone>>

\* line 154
CombineCreateGdb ==
    /\ pc = "c154"
    /\ \/ /\ exists' = exists \cup {Gdb}
          /\ Done("CreateFileGDB", "c156")
       \/ /\ Raises("CreateFileGDB")
          /\ UNCHANGED exists
    /\ UNCHANGED <<stage, args, workspace, ext, rows, combineLocals, ci, cursor, result,
                   prevFailed, reads, missing, shedDone>>

\* lines 156-158: a mosaic of no raster is an engine error
CombineMosaic ==
    /\ pc = "c156"
    /\ mosaicArg' = rasters_to_add
    /\ \/ /\ rasters_to_add # <<>>
          /\ exists' = exists \cup {Join(Gdb, mosaic_name)}
          /\ Done("MosaicToNewRaster", "c160")
       \/ /\ Raises("MosaicToNewRaster")
          /\ UNCHANGED exists
    /\ UNCHANGED <<stage, args, workspace, ext, rows, tree, old_wkspace, rasters_to_add,
                   widx, ci, cursor, result, prevFailed, reads, missing, shedDone>>

\* the locals of combine_rasters once its frame is gone
NoLocals ==
    /\ tree' = <<>> /\ old_wkspace' = <<>> /\ rasters_to_add' = <<>>
    /\ widx' = 0 /\ mosaicArg' = <<>>

\* line 160
CombineReset ==
    /\ pc = "c160"
    /\ workspace' = old_wkspace
    /\ Goto("c161")
    /\ UNCHANGED <<stage, args, ext, exists, rows, combineLocals, ci, cursor, result,
                   prevFailed, trace, reads, missing, shedDone>>

\* line 161
CombineReturn ==
    /\ pc = "c161"
    /\ NoLocals
    /\ Done("return", "l59")
    /\ UNCHANGED <<stage, args, workspace, ext, exists, rows, ci, cursor, result,
                   prevFailed, reads, missing, shedDone>>

\* ------------------------------------------------------------------ step 5
points == "points"
stname == coordinates[ci]

\* lines 98-99
Step5Start ==
    /\ pc = "l99"
    /\ Goto("l102")
    /\ trace' = Append(trace, Ev("start", 5, TRUE))
    /\ UNCHANGED <<stage, args, workspace, ext, exists, rows, combineLocals, ci, cursor,
                   result, prevFailed, reads, missing, shedDone>>

\* a creation that would keep the rows of an older points
KeptRows == rows
\* the rows of a feature class just created
NewRows == <<>>

\* lines 102-103: out_path is the workspace; an existing points is overwritten
CreateFeatureclass ==
    /\ pc = "l102"
    /\ \/ /\ workspace \in exists
          /\ overwriteOutput \/ Resolve(points) \notin exists
          /\ exists' = exists \cup {Resolve(points)}
          /\ rows' = NewRows
          /\ Done("CreateFeatureclass", "l104")
       \/ /\ Raises("CreateFeatureclass")
          /\ UNCHANGED <<exists, rows>>
    /\ UNCHANGED <<stage, args, workspace, ext, combineLocals, ci, cursor, result,
                   prevFailed, reads, missing, shedDone>>

Frame5 == UNCHANGED <<stage, args, workspace, ext, rows, combineLocals, ci, cursor, result,
                      prevFailed, shedDone>>

\* line 104
AddField == EngineCall("l104", "AddField", FALSE, {Resolve(points)}, {}, "l105") /\ Frame5

\* line 105
InsertCursor ==
    /\ pc = "l105"
    /\ Read({Resolve(points)})
    /\ \/ /\ Resolve(points) \in exists
          /\ cursor' = TRUE
          /\ Done("InsertCursor", "l106")
       \/ /\ Raises("InsertCursor")
          /\ UNCHANGED cursor
    /\ UNCHANGED <<stage, args, workspace, ext, exists, rows, combineLocals, ci, result,
                   prevFailed, shedDone>>

\* a loop that would step over every other coordinate
NextCoordSkips == ci + 2
\* the index of the coordinate after the ci-th
NextCoord == ci + 1

\* lines 106-109: the next coord, or the loop ends
ForCoord ==
    /\ pc = "l106"
    /\ IF NextCoord <= Len(coordinates)
          THEN ci' = NextCoord /\ Goto("l111")
          ELSE UNCHANGED ci /\ Goto("l125")
    /\ UNCHANGED <<stage, args, workspace, ext, exists, rows, combineLocals, cursor, result,
                   prevFailed, trace, reads, missing, shedDone>>

\* where the loop body goes on after Watershed (line 117)
AfterWatershed == "l120"

\* line 111
Describe == EngineCall("l111", "Describe", FALSE, {Suffix(combined, "_fa")}, {}, "l113") /\ Frame5
\* line 113
SnapPourPoint ==
    EngineCall("l113", "SnapPourPoint", TRUE, {Suffix(combined, "_fa")}, {}, "l114") /\ Frame5
\* line 114
SaveSnapped ==
    EngineCall("l114", "save", FALSE, {}, {Resolve("snapped" \o stname)}, "l117") /\ Frame5
\* line 117
Watershed ==
    EngineCall("l117", "Watershed", TRUE, {Suffix(combined, "_fd")}, {}, AfterWatershed)
    /\ Frame5

\* line 120
RasterToPolygon ==
    /\ pc = "l120"
    /\ \/ /\ Gdb \in exists
          /\ exists' = exists \cup {Resolve("shed" \o stname)}
          /\ shedDone' = shedDone \cup {ci}
          /\ Done("RasterToPolygon", "l122")
       \/ /\ Raises("RasterToPolygon")
          /\ UNCHANGED <<exists, shedDone>>
    /\ UNCHANGED <<stage, args, workspace, ext, rows, combineLocals, ci, cursor, result,
                   prevFailed, reads, missing>>

\* line 122
InsertRow ==
    /\ pc = "l122"
    /\ \/ /\ cursor /\ Resolve(points) \in exists
          /\ rows' = Append(rows, stname)
          /\ Done("insertRow", "l106")
       \/ /\ Raises("insertRow")
          /\ UNCHANGED rows
    /\ UNCHANGED <<stage, args, workspace, ext, exists, combineLocals, ci, cursor, result,
                   prevFailed, reads, missing, shedDone>>

\* lines 125-127 and the return
Finish ==
    /\ pc = "l125"
    /\ cursor' = FALSE
    /\ outcome' = "returned"
    /\ Goto("idle")
    /\ UNCHANGED <<stage, args, workspace, ext, exists, rows, combineLocals, ci, logged,
                   prevFailed, trace, reads, missing, shedDone>>

\* whether the handler of lines 130-131 can print e.args[0]
HandlerPrints(e) == e.type = "ExecuteError" \/ Len(e.args) > 0

\* lines 128-131: print(e.args[0]) of an exception without arguments raises IndexError
\* out of the handler; the frame's cursor goes with the frame
Except ==
    /\ pc = "except"
    /\ IF HandlerPrints(exc)
          THEN logged' = TRUE /\ outcome' = "returned" /\ exc' = NoExc
          ELSE logged' = FALSE /\ outcome' = "propagated"
               /\ exc' = [type |-> "IndexError", args |-> <<"tuple index out of range">>]
    /\ pc' = "idle"
    /\ cursor' = FALSE
    /\ NoLocals
    /\ UNCHANGED <<stage, args, workspace, ext, exists, rows, ci, failed,
                   failedAt, prevFailed, trace, reads, missing, shedDone>>

Next ==
    \/ \E s \in Stages : Call(s)
    \/ SetWorkspace
    \/ CheckOutExtension
    \/ \E k \in 0..4 : Gate(k)
    \/ CombineEnter \/ CombineNextDir \/ CombineList \/ CombineDelete
    \/ CombineCreateGdb \/ CombineMosaic \/ CombineReset \/ CombineReturn
    \/ Fill \/ SaveFill \/ FlowDirection \/ SaveFd \/ FlowAccumulation \/ SaveFa
    \/ RasterCalculator
    \/ Step5Start \/ CreateFeatureclass \/ AddField \/ InsertCursor \/ ForCoord
    \/ Describe \/ SnapPourPoint \/ SaveSnapped \/ Watershed \/ RasterToPolygon
    \/ InsertRow \/ Finish \/ Except

Spec == Init /\ [][Next]_vars


\* ------------------------------------------------------------------ properties
Idx == 1..Len(trace)
Starts == {j \in Idx : trace[j].op = "start"}
Executed == {trace[j].k : j \in Starts}

\* the run has gone past the test of step k without raising before or in step k
Passed(k) ==
    /\ outcome # "none"
    /\ IF failed THEN failedAt > k ELSE pc = "idle" \/ StepOf(pc) > k

RunOver == pc = "idle" /\ outcome # "none"
Succeeded == RunOver /\ outcome = "returned" /\ ~failed

\* C1: a preprocessing step k in 0..4 is executed exactly when stage <= k, and
\* step 5 is executed for every stage, provided no earlier executed step raised.
C1_StageGating ==
    /\ \A k \in 0..4 : k \in Executed => stage <= k
    /\ \A k \in 0..4 : Passed(k) /\ stage <= k => k \in Executed
    /\ Passed(4) /\ pc # "l99" => 5 \in Executed

C1_Witness ==
    /\ Succeeded /\ stage = 3 /\ Executed = {3, 4, 5}

\* the entry that shows step k finished and saved its output
Saved(k) ==
    CASE k = 0 -> "return" [] k \in 1..3 -> "save" [] k = 4 -> "RasterCalculator"
      [] OTHER -> "none"
SpatialAnalystOps ==
    {"Fill", "FlowDirection", "FlowAccumulation", "RasterCalculator", "SnapPourPoint",
     "Watershed"}

\* C2: the executed steps occur in the order 0, 1, 2, 3, 4, 5, each at most once, a
\* step starts only after every executed lower step has finished and saved its
\* output, every call belongs to the step started last, and the Spatial Analyst
\* extension is checked out before the first Spatial Analyst call.
C2_StepOrder ==
    /\ \A i, j \in Starts : i < j => trace[i].k < trace[j].k
    /\ \A i, j \in Starts : i < j =>
           \E m \in Idx : /\ i < m /\ m < j
                          /\ trace[m].op = Saved(trace[i].k)
                          /\ trace[m].k = trace[i].k /\ trace[m].ok
    /\ \A j \in Idx \ Starts : trace[j].k >= 0 =>
           \E i \in Starts : /\ i < j /\ trace[i].k = trace[j].k
                             /\ \A m \in Starts : m < j => m <= i
    /\ \A j \in Idx : trace[j].op \in SpatialAnalystOps =>
           \E i \in Idx : i < j /\ trace[i].op = "CheckOutExtension" /\ trace[i].ok

C2_Witness == Succeeded /\ Executed = 0..5 /\ Len(coordinates) = 2

\* C3: every exception raised inside create_watershed is caught and logged, and
\* create_watershed returns normally.
C3_BlanketLogging == RunOver /\ failed => outcome = "returned" /\ logged

\* the datasets an unfailed stage-0 run leaves in the geodatabase
ExpectedOutputs ==
    {Gdb, combined, Suffix(combined, "_fill"), Suffix(combined, "_fd"),
     Suffix(combined, "_fa"), Suffix(combined, "_stream"), Join(Gdb, points)}
    \cup {Join(Gdb, "snapped" \o coordinates[i]) : i \in 1..Len(coordinates)}
    \cup {Join(Gdb, "shed" \o coordinates[i]) : i \in 1..Len(coordinates)}

Restarted == outcome # "none" /\ prevFailed >= 1 /\ stage = prevFailed

\* the raster step k is to write
OutputOf(k) ==
    CASE k = 0 -> combined
      [] k = 1 -> Suffix(combined, "_fill")
      [] k = 2 -> Suffix(combined, "_fd")
      [] k = 3 -> Suffix(combined, "_fa")
      [] OTHER -> Suffix(combined, "_stream")

\* C4: a run with stage = k that follows a stage-0 run which failed in step k >= 1
\* repeats none of the steps 0..k-1, finds every raster that its first step reads
\* and every output of the steps 0..k-1 that it reads, and on success leaves the
\* datasets of an unfailed stage-0 run.
C4_Restart ==
    Restarted =>
        /\ Executed \cap 0..(stage - 1) = {}
        /\ \A r \in reads :
              r.step = stage \/ (\E j \in 0..(stage - 1) : r.path = OutputOf(j))
                  => r.path \notin missing
        /\ Succeeded => exists = ExpectedOutputs

\* the raster step k is to read according to the chain of names
ChainInput(k) ==
    CASE k = 1 -> {combined}
      [] k = 2 -> {Suffix(combined, "_fill")}
      [] k = 3 -> {Suffix(combined, "_fd")}
      [] k = 4 -> {Suffix(combined, "_fa")}
      [] OTHER -> {Suffix(combined, "_fa"), Suffix(combined, "_fd"), Join(Gdb, points)}

\* C5: every step reads the raster that the preceding step of the chain wrote,
\* named from mosaic_name, inside play_folder/out_geo.
C5_NameChain == \A r \in reads : r.path \in ChainInput(r.step)

\* the rasters of the wanted type in the folders below grid, at any depth
WantedIn(dir) ==
    {Join(dir, FolderRasters(dir)[j].name) :
        j \in {m \in 1..Len(FolderRasters(dir)) : FolderRasters(dir)[m].type = type_of_raster}}
Wanted == UNION {WantedIn(DirPath(d)) : d \in 1..Len(tree)}

MosaicCalled == \E j \in Idx : trace[j].op = "MosaicToNewRaster"
InCombine == pc \in {"c160", "c161"} \/ (pc = "except" /\ failedAt = 0)

\* C6: the list handed to the mosaic call holds each wanted raster of every folder
\* below grid exactly once as its full path and none that lies in grid itself, and
\* after the mosaic the geodatabase holds the mosaic and nothing older.
C6_CombineRasters ==
    /\ MosaicCalled /\ InCombine =>
        /\ {mosaicArg[j] : j \in 1..Len(mosaicArg)} = Wanted
        /\ Len(mosaicArg) = Cardinality(Wanted)
        /\ \A j \in 1..Len(mosaicArg) : Len(mosaicArg[j]) > Len(grid) + 1
    /\ pc \in {"c160", "c161"} =>
        {p \in exists : IsPrefix(Gdb, p)} = {Gdb, Join(Gdb, mosaic_name)}

C6_Witness == pc = "c160" /\ tree = <<0, 1>> /\ Len(mosaicArg) = 3 /\ prevFailed >= 1

LoopOps ==
    <<"Describe", "SnapPourPoint", "save", "Watershed", "RasterToPolygon", "insertRow">>
LoopStart == CHOOSE j \in Idx : trace[j].op = "InsertCursor"
CursorOpened == \E j \in Idx : trace[j].op = "InsertCursor" /\ trace[j].ok

\* C7: the loop handles the coordinates one after the other in input order, each by
\* snap, save, watershed, polygon, insert row; after a run without error points has
\* one row per coordinate in input order and every snapped raster and shed polygon.
C7_PerPointLoop ==
    /\ CursorOpened =>
          \A j \in Idx : j > LoopStart =>
              /\ trace[j].op = LoopOps[((j - LoopStart - 1) % 6) + 1]
              /\ j < Len(trace) => trace[j].ok
    /\ pc \in {"l106", "l125"} => ci = Len(rows)
    /\ pc \in {"l111", "l113", "l114", "l117", "l120", "l122"} =>
          ci = Len(rows) + 1 /\ rows = SubSeq(coordinates, 1, ci - 1)
    /\ Succeeded =>
          /\ rows = coordinates
          /\ \A i \in 1..Len(coordinates) :
                /\ Join(Gdb, "snapped" \o coordinates[i]) \in exists
                /\ Join(Gdb, "shed" \o coordinates[i]) \in exists

C7_Witness ==
    /\ Succeeded /\ Len(coordinates) = 2 /\ coordinates[1] # coordinates[2]
    /\ rows = coordinates

\* C8: points is created anew in step 5, a row exists only for a coordinate whose
\* shed polygon was written in this run, and when the loop fails at the i-th
\* coordinate points holds the rows of the first i-1 coordinates.
C8_PointsRows ==
    /\ pc \in {"l104", "l105"} => rows = <<>>
    /\ cursor \/ (RunOver /\ 5 \in Executed /\ ci >= 1) =>
          /\ \A j \in 1..Len(rows) : j \in shedDone /\ rows[j] = coordinates[j]
          /\ Len(rows) <= Len(coordinates)
    /\ RunOver /\ failed /\ failedAt = 5 /\ ci >= 1 => rows = SubSeq(coordinates, 1, ci - 1)

C8_Witness ==
    /\ RunOver /\ failed /\ failedAt = 5 /\ ci = 2 /\ rows = <<coordinates[1]>>
    /\ prevFailed = 5

\* C9: whenever control leaves combine_rasters, by return or by an exception, the
\* workspace is the one it had on entry.
C9_WorkspaceRestored == pc = "c161" \/ (pc = "except" /\ failedAt = 0) => workspace = old_wkspace

====
